---- MODULE Spec2Model ----
(***************************************************************************)
(* pip-inspector: the fetcher (pip_inspector/utils.py, fetch_url_content)  *)
(* and the two table extractors of dev/parse_with_selectolax.py            *)
(* (parse_pypi_inspector, the lenient one, and parse_real_pypi_page, the   *)
(* strict one), as one state machine.  A run is one call of one of the     *)
(* three functions; `mode` says which.                                     *)
(*                                                                         *)
(* Text that the code inspects character by character (strip, isdigit,     *)
(* int, decode) is a sequence: of one-character strings for str values, of *)
(* byte values for bytes, of code points for decoded str values.           *)
(***************************************************************************)
EXTENDS Integers, Sequences, FiniteSets, TLC

\* Bounds of the model.
MaxBody == 3
MaxRows == 3
MaxTextLen == 3

\* utils.py: def fetch_url_content(url, timeout: int = 10)
DefaultTimeout == 10

RECURSIVE SeqsUpTo(_, _)
SeqsUpTo(S, n) ==
  IF n = 0 THEN {<<>>}
  ELSE LET shorter == SeqsUpTo(S, n - 1)
       IN  shorter \cup {Append(s, x) : s \in {t \in shorter : Len(t) = n - 1}, x \in S}

(***************************************************************************)
(* -------------------------- fetch_url_content -------------------------- *)
(***************************************************************************)

\* The url argument: a Python value with its type; for a str, its text and
\* the scheme urllib.request.Request parses from it ("" when it has none).
UrlNone     == [type |-> "NoneType", text |-> "", scheme |-> "", num |-> 0]
UrlZero     == [type |-> "int", text |-> "", scheme |-> "", num |-> 0]
UrlFive     == [type |-> "int", text |-> "", scheme |-> "", num |-> 5]
UrlEmpty    == [type |-> "str", text |-> "", scheme |-> "", num |-> 0]
UrlGood     == [type |-> "str", text |-> "https://example.com", scheme |-> "https", num |-> 0]
UrlNoScheme == [type |-> "str", text |-> "example.com/liburlparser", scheme |-> "", num |-> 0]
Urls == {UrlNone, UrlZero, UrlFive, UrlEmpty, UrlGood, UrlNoScheme}

\* Python truthiness of the argument (`not url` is its negation).
Truthy(u) ==
  CASE u.type = "str" -> u.text /= ""
    [] u.type = "int" -> u.num /= 0
    [] OTHER -> FALSE

IsStr(u) == u.type = "str"

\* A mutation of the guard: the isinstance test is left out.
InvalidUrlTruthOnly(u) == ~Truthy(u)

\* utils.py:27  if not url or not isinstance(url, str)
InvalidUrl(u) == ~Truthy(u) \/ ~IsStr(u)

\* The timeout argument: "default" when the caller passes none.
TimeoutArgs == {"default", "30", "5"}

\* utils.py:8, 51  the timeout urlopen is given
Timeout(arg) ==
  CASE arg = "default" -> DefaultTimeout
    [] arg = "30" -> 30
    [] arg = "5" -> 5

\* Exception classes and their base classes (each with itself).
Bases(e) ==
  CASE e = "HTTPError"      -> {"HTTPError", "URLError", "OSError", "Exception"}
    [] e = "URLError"       -> {"URLError", "OSError", "Exception"}
    [] e = "TimeoutError"   -> {"TimeoutError", "OSError", "Exception"}
    [] e = "ValueError"     -> {"ValueError", "Exception"}
    [] e = "UnicodeError"   -> {"UnicodeError", "ValueError", "Exception"}
    [] e = "LookupError"    -> {"LookupError", "Exception"}
    [] e = "InvalidURL"     -> {"InvalidURL", "HTTPException", "Exception"}
    [] e = "IncompleteRead" -> {"IncompleteRead", "HTTPException", "Exception"}
    [] OTHER -> {e}

\* A mutation of the except chain: the catch-all clause is missing.
ExceptClausesNoCatchAll == <<"HTTPError", "URLError", "ValueError">>

\* utils.py:63-78  the except clauses, in order
ExceptClauses == <<"HTTPError", "URLError", "ValueError", "Exception">>

\* The diagnostic each clause prints.
Diagnostic(clause) ==
  CASE clause = "HTTPError"  -> "HTTP Error"
    [] clause = "URLError"   -> "URL Error"
    [] clause = "ValueError" -> "Value Error"
    [] OTHER -> "Unexpected error"

Matching(e) == {k \in 1..Len(ExceptClauses) : ExceptClauses[k] \in Bases(e)}

\* The first clause that catches e, 0 when none does.
Clause(e) ==
  IF Matching(e) = {} THEN 0
  ELSE CHOOSE k \in Matching(e) : \A j \in Matching(e) : k <= j

\* What urlopen can raise, and what response.read() can raise.
OpenErrors == {"HTTPError", "URLError", "TimeoutError", "InvalidURL", "UnicodeError"}
ReadErrors == {"TimeoutError", "IncompleteRead"}
HttpCodes == {404, 500}

\* Bytes of a response body: 'A', the two bytes of UTF-8 "n with tilde"
\* (0xC3 0xB1), and 0xFF, which no UTF-8 text contains.
ByteAlphabet == {65, 195, 177, 255}
Bodies == SeqsUpTo(ByteAlphabet, MaxBody)

\* response.headers.get_content_charset(): "None" stands for None.
Charsets == {"None", "", "utf-8", "latin-1", "x-unknown"}
KnownCodecs == {"utf-8", "latin-1"}

Replacement == 65533

IsContinuation(b) == b >= 128 /\ b <= 191
IsLead2(b) == b >= 194 /\ b <= 223

\* bytes.decode("utf-8", errors="replace") on one- and two-byte sequences.
RECURSIVE DecodeUtf8(_)
DecodeUtf8(bs) ==
  IF bs = <<>> THEN <<>>
  ELSE LET b == Head(bs)
           rest == Tail(bs)
       IN  IF b < 128 THEN <<b>> \o DecodeUtf8(rest)
           ELSE IF IsLead2(b) /\ rest /= <<>> /\ IsContinuation(Head(rest))
                THEN <<(b % 32) * 64 + (Head(rest) % 64)>> \o DecodeUtf8(Tail(rest))
                ELSE <<Replacement>> \o DecodeUtf8(rest)

\* bytes.decode("latin-1", errors="replace"): every byte is its code point.
DecodeLatin1(bs) == bs

\* A mutation: the declared charset is ignored.
EncodingAlwaysUtf8(charset) == "utf-8"

\* utils.py:56  encoding = response.headers.get_content_charset() or 'utf-8'
Encoding(charset) == IF charset \in {"None", ""} THEN "utf-8" ELSE charset

\* utils.py:59  content.decode(encoding, errors='replace')
Decode(encoding, bs) ==
  IF encoding = "utf-8" THEN DecodeUtf8(bs) ELSE DecodeLatin1(bs)

NoResponse == [body |-> <<>>, charset |-> "None"]
Pending == [kind |-> "pending", text |-> <<>>]
NoneResult == [kind |-> "None", text |-> <<>>]
StrResult(t) == [kind |-> "str", text |-> t]

\* A mutation of the handlers: a failed request is tried again.
AfterHandlerRetry == "open"

\* utils.py:66, 70, 74, 78  every handler returns None
AfterHandler == "returned"

(***************************************************************************)
(* ------------------- parse_pypi_inspector / parse_real_pypi_page -------- *)
(***************************************************************************)

\* Python values of the records' fields.
PyNone == [kind |-> "None", s |-> <<>>, n |-> 0]
PyStr(t) == [kind |-> "str", s |-> t, n |-> 0]
PyInt(k) == [kind |-> "int", s |-> <<>>, n |-> k]

\* Characters: "sup2" stands for U+00B2 (superscript two), a character that
\* str.isdigit accepts and int() rejects.
DecimalChars == {"0", "1", "2", "3", "4", "5", "6", "7", "8", "9"}
DigitChars == DecimalChars \cup {"sup2"}
Whitespace == {" ", "\n"}

DigitVal(c) ==
  CASE c = "0" -> 0 [] c = "1" -> 1 [] c = "2" -> 2 [] c = "3" -> 3
    [] c = "4" -> 4 [] c = "5" -> 5 [] c = "6" -> 6 [] c = "7" -> 7
    [] c = "8" -> 8 [] c = "9" -> 9

\* str.isdigit(): non-empty and every character a digit character
isdigit(t) == t /= <<>> /\ \A k \in 1..Len(t) : t[k] \in DigitChars

\* Whether int(t) returns for a text t that str.isdigit accepts: int() takes
\* decimal digits only and raises ValueError otherwise.
IntAccepts(t) == \A k \in 1..Len(t) : t[k] \in DecimalChars

\* int(t) for a text of decimal digits
RECURSIVE int(_)
int(t) ==
  IF t = <<>> THEN 0
  ELSE int(SubSeq(t, 1, Len(t) - 1)) * 10 + DigitVal(t[Len(t)])

RECURSIVE lstrip(_)
lstrip(t) == IF t /= <<>> /\ Head(t) \in Whitespace THEN lstrip(Tail(t)) ELSE t

RECURSIVE rstrip(_)
rstrip(t) ==
  IF t /= <<>> /\ t[Len(t)] \in Whitespace THEN rstrip(SubSeq(t, 1, Len(t) - 1)) ELSE t

\* str.strip()
strip(t) == rstrip(lstrip(t))

\* Texts of the fixture page (parse_with_selectolax.py:137-171) and of the
\* sample rows.
TxtLiburlparser == <<"l", "i", "b", "u", "r", "l", "p", "a", "r", "s", "e", "r">>
TxtRetrieved == <<"R", "e", "t", "r", "i", "e", "v", "e", "d", " ", "2", "0", " ", "v", "e", "r", "s", "i", "o", "n", "s", ".">>
Txt160 == <<"1", ".", "6", ".", "0">>
TxtHref160 == <<".", "/", "1", ".", "6", ".", "0">>
TxtTs160 == <<"2", "0", "2", "5", "-", "0", "5", "-", "0", "4", "T", "1", "3", ":", "2", "1", ":", "2", "2">>
Txt150 == <<"1", ".", "5", ".", "0">>
TxtHref150 == <<".", "/", "1", ".", "5", ".", "0">>
TxtTs150 == <<"2", "0", "2", "4", "-", "1", "0", "-", "1", "8", "T", "1", "8", ":", "2", "2", ":", "2", "9">>
Txt10 == <<"1", "0">>
Txt31 == <<"3", "1">>
TxtEstimate == <<"1", "0", " ", "(", "e", "s", "t", "i", "m", "a", "t", "e", ")">>
Txt140Padded == <<" ", "1", ".", "4", ".", "0", "\n">>
Txt140 == <<"1", ".", "4", ".", "0">>
TxtHref140 == <<".", "/", "1", ".", "4", ".", "0">>
TxtTs140Padded == <<"\n", "2", "0", "2", "4", "-", "0", "1", "-", "0", "2", "T", "0", "3", ":", "0", "4", ":", "0", "5", " ">>
TxtTs140 == <<"2", "0", "2", "4", "-", "0", "1", "-", "0", "2", "T", "0", "3", ":", "0", "4", ":", "0", "5">>
Txt7Padded == <<"\n", "7", " ">>
TxtVersion == <<"V", "e", "r", "s", "i", "o", "n">>
TxtUpload == <<"U", "p", "l", "o", "a", "d", " ", "T", "i", "m", "e", "s", "t", "a", "m", "p">>
TxtArtifacts == <<"A", "r", "t", "i", "f", "a", "c", "t", "s">>
TxtSup2 == <<"sup2">>

\* The parsed page, as the selectors of the two functions see it.  A row is
\* a <tr> inside a table: inTbody says whether a <tbody> is among its
\* ancestors (the parser wraps the rows written directly under <table> in
\* one; the rows of <thead> have none); cells are its <td> descendants (a
\* <th> is no cell).  A cell has its text and its first <a>, if any.
NoAnchor == [present |-> FALSE, text |-> <<>>, hasHref |-> FALSE, href |-> <<>>]
Anchor(t, h) == [present |-> TRUE, text |-> t, hasHref |-> TRUE, href |-> h]
AnchorNoHref(t) == [present |-> TRUE, text |-> t, hasHref |-> FALSE, href |-> <<>>]
Cell(t) == [text |-> t, anchor |-> NoAnchor]
LinkCell(a) == [text |-> a.text, anchor |-> a]
Row(tb, cs) == [inTbody |-> tb, cells |-> cs]

HeaderTh   == Row(FALSE, <<>>)
HeaderTd   == Row(FALSE, <<Cell(TxtVersion), Cell(TxtUpload), Cell(TxtArtifacts)>>)
Row160     == Row(TRUE, <<LinkCell(Anchor(Txt160, TxtHref160)), Cell(TxtTs160), Cell(Txt10)>>)
Row150     == Row(TRUE, <<LinkCell(Anchor(Txt150, TxtHref150)), Cell(TxtTs150), Cell(Txt31)>>)
TwoCells   == Row(TRUE, <<LinkCell(Anchor(Txt140, TxtHref140)), Cell(TxtTs140)>>)
Unlinked   == Row(TRUE, <<Cell(Txt140), Cell(TxtTs140), Cell(Txt10)>>)
Estimate   == Row(TRUE, <<LinkCell(Anchor(Txt140, TxtHref140)), Cell(TxtTs140), Cell(TxtEstimate)>>)
Padded     == Row(TRUE, <<LinkCell(Anchor(Txt140Padded, TxtHref140)), Cell(TxtTs140Padded), Cell(Txt7Padded)>>)
Superscript == Row(TRUE, <<LinkCell(Anchor(Txt140, TxtHref140)), Cell(TxtTs140), Cell(TxtSup2)>>)
FourCells  == Row(TRUE, <<LinkCell(AnchorNoHref(Txt140)), Cell(TxtTs140), Cell(Txt31), Cell(Txt10)>>)

RowSamples == {HeaderTh, HeaderTd, Row160, Row150, TwoCells, Unlinked, Estimate,
               Padded, Superscript, FourCells}

\* Short texts over an alphabet with a character of each class.
TextAlphabet == {"1", "0", " ", "e", "sup2"}
ShortTexts == SeqsUpTo(TextAlphabet, MaxTextLen)
ProbeRow(t, linked) ==
  Row(TRUE, <<IF linked THEN LinkCell(Anchor(t, t)) ELSE Cell(t), Cell(t), Cell(t)>>)

\* <input name="project">: absent, present without a value attribute, or
\* present with one; the first <p>: absent or present with its text.
NoInput == [present |-> FALSE, hasValue |-> FALSE, value |-> <<>>]
InputNoValue == [present |-> TRUE, hasValue |-> FALSE, value |-> <<>>]
InputValue(t) == [present |-> TRUE, hasValue |-> TRUE, value |-> t]
NoPara == [present |-> FALSE, text |-> <<>>]
Para(t) == [present |-> TRUE, text |-> t]

Page(inp, par, rs) == [project |-> inp, para |-> par, rows |-> rs]

\* parse_with_selectolax.py:137-171  the page of the __main__ block
Fixture == Page(InputValue(TxtLiburlparser), Para(TxtRetrieved), <<HeaderTh, Row160, Row150>>)

Pages ==
  {Page(InputValue(TxtLiburlparser), Para(TxtRetrieved), rs) : rs \in SeqsUpTo(RowSamples, MaxRows)}
  \cup {Page(inp, par, rs) :
          inp \in {NoInput, InputNoValue, InputValue(TxtLiburlparser)},
          par \in {NoPara, Para(TxtRetrieved)},
          rs \in {<<>>, <<HeaderTh, Row160, Row150>>}}
  \cup {Page(NoInput, NoPara, <<HeaderTh, ProbeRow(t, linked)>>) :
          t \in ShortTexts, linked \in BOOLEAN}

\* How the selector engine reports a node that matches several alternatives
\* of a selector list: once, or once for each alternative it matches.
Engines == {"once", "perAlternative"}

Indices(rs) == [k \in 1..Len(rs) |-> k]

RECURSIVE Filter(_, _, _)
Filter(ix, rs, k) ==
  IF k > Len(ix) THEN <<>>
  ELSE (IF rs[ix[k]].inTbody THEN <<ix[k]>> ELSE <<>>) \o Filter(ix, rs, k + 1)

\* parse_with_selectolax.py:25  tree.css('table tr'): the rows in document
\* order, each by its index in the page
CssTableTr(pg) == Indices(pg.rows)

\* parse_with_selectolax.py:116  tree.css('table tbody tr, table tr')
CssTbodyTrOrTr(pg, engine) ==
  IF engine = "once" THEN Indices(pg.rows)
  ELSE Filter(Indices(pg.rows), pg.rows, 1) \o Indices(pg.rows)

\* A mutation of the slice: the header row is not skipped.
SkipHeaderNot(ix) == ix

\* parse_with_selectolax.py:28  rows[1:]
SkipHeader(ix) == IF ix = <<>> THEN <<>> ELSE Tail(ix)

\* A mutation of the guard: more than three cells are required.
EnoughCellsStrictly(cells) == Len(cells) > 3

\* parse_with_selectolax.py:30, 118  len(cells) >= 3
EnoughCells(cells) == Len(cells) >= 3

\* node.attributes.get(name, ''): the attribute's value, '' without it
GetHref(a) == IF a.hasHref THEN a.href ELSE <<>>

Record(v, u, t, a) == [version |-> v, url |-> u, timestamp |-> t, artifacts |-> a]

\* A mutation of the coercion: the text is never converted.
CoerceNever(t) == PyStr(t)

\* parse_with_selectolax.py:46  int(artifacts) if artifacts.isdigit() else artifacts
Coerce(t) == IF isdigit(t) THEN PyInt(int(t)) ELSE PyStr(t)

\* parse_with_selectolax.py:46  the int() call raises ValueError
CoerceRaises(t) == isdigit(t) /\ ~IntAccepts(t)

\* parse_with_selectolax.py:32-47  the record of a row with enough cells
LenientRecord(cells) ==
  LET a == cells[1].anchor
  IN  Record(IF a.present THEN PyStr(a.text) ELSE PyNone,
             IF a.present THEN PyStr(GetHref(a)) ELSE PyNone,
             PyStr(cells[2].text),
             Coerce(cells[3].text))

\* A mutation: a row of two cells yields a record without artifacts.
LenientRowPartial(row) ==
  IF Len(row.cells) >= 3 THEN <<LenientRecord(row.cells)>>
  ELSE IF Len(row.cells) = 2
       THEN <<Record(PyNone, PyNone, PyStr(row.cells[2].text), PyNone)>>
       ELSE <<>>

\* parse_with_selectolax.py:29-47  what one pass of the lenient loop appends
LenientRow(row) ==
  IF EnoughCells(row.cells) THEN <<LenientRecord(row.cells)>> ELSE <<>>

\* A mutation: the strict variant converts the artifacts as the lenient does.
StrictRecordCoerced(cells) ==
  LET a == cells[1].anchor
  IN  Record(PyStr(strip(a.text)),
             PyStr(GetHref(a)),
             PyStr(strip(cells[2].text)),
             IF isdigit(strip(cells[3].text)) /\ IntAccepts(strip(cells[3].text))
             THEN PyInt(int(strip(cells[3].text)))
             ELSE PyStr(strip(cells[3].text)))

\* parse_with_selectolax.py:121-126  the record of a row with an anchor
StrictRecord(cells) ==
  LET a == cells[1].anchor
  IN  Record(PyStr(strip(a.text)),
             PyStr(GetHref(a)),
             PyStr(strip(cells[2].text)),
             PyStr(strip(cells[3].text)))

\* parse_with_selectolax.py:117-126  what one pass of the strict loop appends
StrictRow(row) ==
  IF EnoughCells(row.cells) /\ row.cells[1].anchor.present
  THEN <<StrictRecord(row.cells)>>
  ELSE <<>>

\* parse_with_selectolax.py:107-108  project_name
ProjectName(pg) ==
  IF pg.project.present
  THEN PyStr(IF pg.project.hasValue THEN pg.project.value ELSE <<>>)
  ELSE PyNone

\* parse_with_selectolax.py:111-112  version_count_text
VersionCountText(pg) == IF pg.para.present THEN PyStr(pg.para.text) ELSE PyNone

NoResult == [kind |-> "pending", project |-> PyNone, version_count |-> PyNone, versions |-> <<>>]

VARIABLES
  mode,          \* which function this run calls
  url,           \* fetch: the url argument
  timeoutArg,    \* fetch: the timeout argument
  fpc,           \* fetch: position in fetch_url_content
  requests,      \* fetch: Request objects built
  urlopenCalls,  \* fetch: the timeout of each urlopen call, in order
  response,      \* fetch: the response urlopen returned
  encoding,      \* fetch: the local `encoding`
  exc,           \* fetch: the exception in flight or raised, "none" if none
  httpCode,      \* fetch: e.code of an HTTPError, 0 otherwise
  printed,       \* fetch: diagnostics printed, in order
  fresult,       \* fetch: the value returned
  page,          \* extract: the parsed page
  engine,        \* extract: the selector engine's treatment of selector lists
  epc,           \* extract: position in the extractor
  rowsIter,      \* extract: the rows the loop iterates, by index in page.rows
  examined,      \* extract: passes of the loop completed
  versions,      \* extract: the list `versions`
  origin,        \* extract: for each record, the pass that appended it
  eexc,          \* extract: the exception raised, "none" if none
  eresult        \* extract: the value returned

fvars == <<url, timeoutArg, fpc, requests, urlopenCalls, response, encoding,
           exc, httpCode, printed, fresult>>

evars == <<page, engine, epc, rowsIter, examined, versions, origin, eexc, eresult>>

vars == <<mode, fvars, evars>>

FetchInit ==
  /\ fpc = "call"
  /\ requests = 0
  /\ urlopenCalls = <<>>
  /\ response = NoResponse
  /\ encoding = "unset"
  /\ exc = "none"
  /\ httpCode = 0
  /\ printed = <<>>
  /\ fresult = Pending

ExtractInit ==
  /\ epc = "call"
  /\ rowsIter = <<>>
  /\ examined = 0
  /\ versions = <<>>
  /\ origin = <<>>
  /\ eexc = "none"
  /\ eresult = NoResult

\* utils.py:27-28  the guard, outside the try: its ValueError reaches the caller
Validate ==
  /\ mode = "fetch" /\ fpc = "call"
  /\ IF InvalidUrl(url)
     THEN fpc' = "raised" /\ exc' = "ValueError"
     ELSE fpc' = "try" /\ exc' = exc
  /\ UNCHANGED <<mode, url, timeoutArg, requests, urlopenCalls, response,
                 encoding, httpCode, printed, fresult, evars>>

\* utils.py:48  Request(url, headers=headers); a url without a scheme is a
\* ValueError ("unknown url type")
BuildRequest ==
  /\ mode = "fetch" /\ fpc = "try"
  /\ IF url.scheme = ""
     THEN fpc' = "except" /\ exc' = "ValueError" /\ requests' = requests
     ELSE fpc' = "open" /\ exc' = exc /\ requests' = requests + 1
  /\ UNCHANGED <<mode, url, timeoutArg, urlopenCalls, response, encoding,
                 httpCode, printed, fresult, evars>>

\* utils.py:51  urlopen(request, timeout=timeout) returns a response
UrlOpenOk ==
  /\ mode = "fetch" /\ fpc = "open"
  /\ urlopenCalls' = Append(urlopenCalls, Timeout(timeoutArg))
  /\ \E b \in Bodies, c \in Charsets : response' = [body |-> b, charset |-> c]
  /\ fpc' = "read"
  /\ UNCHANGED <<mode, url, timeoutArg, requests, encoding, exc, httpCode,
                 printed, fresult, evars>>

\* utils.py:51  urlopen raises
UrlOpenFails ==
  /\ mode = "fetch" /\ fpc = "open"
  /\ urlopenCalls' = Append(urlopenCalls, Timeout(timeoutArg))
  /\ \E e \in OpenErrors :
       /\ exc' = e
       /\ IF e = "HTTPError" THEN httpCode' \in HttpCodes ELSE httpCode' = 0
  /\ fpc' = "except"
  /\ UNCHANGED <<mode, url, timeoutArg, requests, response, encoding, printed,
                 fresult, evars>>

\* utils.py:53-61  read, pick the encoding, decode, return; an encoding the
\* codec registry does not know is a LookupError
ReadAndDecode ==
  /\ mode = "fetch" /\ fpc = "read"
  /\ encoding' = Encoding(response.charset)
  /\ IF encoding' \in KnownCodecs
     THEN /\ fresult' = StrResult(Decode(encoding', response.body))
          /\ fpc' = "returned"
          /\ exc' = exc
     ELSE /\ fresult' = fresult
          /\ fpc' = "except"
          /\ exc' = "LookupError"
  /\ UNCHANGED <<mode, url, timeoutArg, requests, urlopenCalls, response,
                 httpCode, printed, evars>>

\* utils.py:53  response.read() raises
ReadFails ==
  /\ mode = "fetch" /\ fpc = "read"
  /\ exc' \in ReadErrors
  /\ fpc' = "except"
  /\ UNCHANGED <<mode, url, timeoutArg, requests, urlopenCalls, response,
                 encoding, httpCode, printed, fresult, evars>>

\* utils.py:63-78  the first matching clause prints and returns None; an
\* exception no clause matches leaves the function
Handle ==
  /\ mode = "fetch" /\ fpc = "except"
  /\ IF Clause(exc) = 0
     THEN fpc' = "raised" /\ printed' = printed /\ fresult' = fresult
     ELSE /\ printed' = Append(printed, Diagnostic(ExceptClauses[Clause(exc)]))
          /\ fpc' = AfterHandler
          /\ fresult' = IF AfterHandler = "returned" THEN NoneResult ELSE fresult
  /\ UNCHANGED <<mode, url, timeoutArg, requests, urlopenCalls, response,
                 encoding, exc, httpCode, evars>>

\* parse_with_selectolax.py:22-27  parse, select the rows, skip the first
parse_pypi_inspector_begin ==
  /\ mode = "lenient" /\ epc = "call"
  /\ rowsIter' = SkipHeader(CssTableTr(page))
  /\ epc' = "loop"
  /\ UNCHANGED <<mode, fvars, page, engine, examined, versions, origin, eexc, eresult>>

\* parse_with_selectolax.py:28-47  one pass of the loop
parse_pypi_inspector_row ==
  /\ mode = "lenient" /\ epc = "loop" /\ examined < Len(rowsIter)
  /\ LET row == page.rows[rowsIter[examined + 1]]
     IN  IF EnoughCells(row.cells) /\ CoerceRaises(row.cells[3].text)
         THEN /\ epc' = "raised"
              /\ eexc' = "ValueError"
              /\ UNCHANGED <<examined, versions, origin>>
         ELSE /\ versions' = versions \o LenientRow(row)
              /\ origin' = origin \o [k \in 1..Len(LenientRow(row)) |-> examined + 1]
              /\ examined' = examined + 1
              /\ UNCHANGED <<epc, eexc>>
  /\ UNCHANGED <<mode, fvars, page, engine, rowsIter, eresult>>

\* parse_with_selectolax.py:49  return versions
parse_pypi_inspector_return ==
  /\ mode = "lenient" /\ epc = "loop" /\ examined = Len(rowsIter)
  /\ eresult' = [kind |-> "list", project |-> PyNone, version_count |-> PyNone,
                 versions |-> versions]
  /\ epc' = "done"
  /\ UNCHANGED <<mode, fvars, page, engine, rowsIter, examined, versions, origin, eexc>>

\* parse_with_selectolax.py:104-116  parse, project name, message, select the rows
parse_real_pypi_page_begin ==
  /\ mode = "strict" /\ epc = "call"
  /\ rowsIter' = CssTbodyTrOrTr(page, engine)
  /\ eresult' = [eresult EXCEPT !.project = ProjectName(page),
                                !.version_count = VersionCountText(page)]
  /\ epc' = "loop"
  /\ UNCHANGED <<mode, fvars, page, engine, examined, versions, origin, eexc>>

\* parse_with_selectolax.py:116-126  one pass of the loop
parse_real_pypi_page_row ==
  /\ mode = "strict" /\ epc = "loop" /\ examined < Len(rowsIter)
  /\ LET row == page.rows[rowsIter[examined + 1]]
     IN  /\ versions' = versions \o StrictRow(row)
         /\ origin' = origin \o [k \in 1..Len(StrictRow(row)) |-> examined + 1]
  /\ examined' = examined + 1
  /\ UNCHANGED <<mode, fvars, page, engine, epc, rowsIter, eexc, eresult>>

\* parse_with_selectolax.py:128-132  return the dict
parse_real_pypi_page_return ==
  /\ mode = "strict" /\ epc = "loop" /\ examined = Len(rowsIter)
  /\ eresult' = [eresult EXCEPT !.kind = "dict", !.versions = versions]
  /\ epc' = "done"
  /\ UNCHANGED <<mode, fvars, page, engine, rowsIter, examined, versions, origin, eexc>>

Init ==
  /\ mode \in {"fetch", "lenient", "strict"}
  /\ IF mode = "fetch"
     THEN url \in Urls /\ timeoutArg \in TimeoutArgs
     ELSE url = UrlNone /\ timeoutArg = "default"
  /\ IF mode = "fetch" THEN page = Fixture ELSE page \in Pages
  /\ IF mode = "strict" THEN engine \in Engines ELSE engine = "once"
  /\ FetchInit
  /\ ExtractInit

Next ==
  \/ Validate
  \/ BuildRequest
  \/ UrlOpenOk
  \/ UrlOpenFails
  \/ ReadAndDecode
  \/ ReadFails
  \/ Handle
  \/ parse_pypi_inspector_begin
  \/ parse_pypi_inspector_row
  \/ parse_pypi_inspector_return
  \/ parse_real_pypi_page_begin
  \/ parse_real_pypi_page_row
  \/ parse_real_pypi_page_return

Spec == Init /\ [][Next]_vars

(***************************************************************************)
(* ------------------------------ properties ------------------------------ *)
(***************************************************************************)

Fetching == mode = "fetch"
Extracting == mode \in {"lenient", "strict"}

\* The url is non-empty text.
NonEmptyText == url.type = "str" /\ url.text /= ""

\* The records a pass of the loop appended, and those a row of the page
\* gave rise to (a row can be passed more than once).
RecordsOfPass(k) == {j \in 1..Len(versions) : origin[j] = k}
RecordsOfRow(r) == {j \in 1..Len(versions) : rowsIter[origin[j]] = r}
RowOfRecord(j) == page.rows[rowsIter[origin[j]]]
RowOfPass(k) == page.rows[rowsIter[k]]

\* t without its leading and trailing whitespace, by position.
Trimmed(t) ==
  LET inked == {k \in 1..Len(t) : t[k] \notin Whitespace}
  IN  IF inked = {} THEN <<>>
      ELSE SubSeq(t, CHOOSE a \in inked : \A k \in inked : a <= k,
                     CHOOSE b \in inked : \A k \in inked : b >= k)

SolelyDecimal(t) == t /= <<>> /\ \A k \in 1..Len(t) : t[k] \in DecimalChars

RECURSIVE Pow10(_)
Pow10(e) == IF e = 0 THEN 1 ELSE 10 * Pow10(e - 1)

\* The number a text of decimal digits denotes, by place value.
RECURSIVE PlaceSum(_, _)
PlaceSum(t, k) ==
  IF k > Len(t) THEN 0
  ELSE DigitVal(t[k]) * Pow10(Len(t) - k) + PlaceSum(t, k + 1)

C2_InvalidInput ==
  (Fetching /\ ~NonEmptyText) =>
    /\ fpc \in {"call", "raised"}
    /\ fpc = "call" => ENABLED Validate
    /\ fpc = "raised" => exc = "ValueError"
    /\ requests = 0
    /\ urlopenCalls = <<>>
    /\ printed = <<>>
    /\ fresult.kind = "pending"

\* C2 witness: a non-empty value that is not text was rejected.
C2_Witness ==
  /\ Fetching /\ url.type = "int" /\ url.num = 5
  /\ fpc = "raised" /\ exc = "ValueError"

RECURSIVE ValidUtf8(_)
ValidUtf8(bs) ==
  \/ bs = <<>>
  \/ bs[1] < 128 /\ ValidUtf8(Tail(bs))
  \/ /\ Len(bs) >= 2 /\ bs[1] = 195 /\ bs[2] = 177
     /\ ValidUtf8(SubSeq(bs, 3, Len(bs)))

C10_NoRetries ==
  Fetching =>
    /\ requests <= 1
    /\ Len(urlopenCalls) <= 1
    /\ \A k \in 1..Len(urlopenCalls) :
         urlopenCalls[k] = (CASE timeoutArg = "default" -> 10
                              [] timeoutArg = "30" -> 30
                              [] timeoutArg = "5" -> 5)
    /\ Len(printed) <= 1
    /\ (fpc = "returned" /\ exc /= "none") =>
         Len(printed) = 1 /\ fresult.kind = "None"
    /\ (fpc = "returned" /\ exc = "none") => printed = <<>>

\* C10 witness: a request under the default timeout failed with a connection
\* error, and the call returned after that one request.
C10_Witness ==
  /\ Fetching /\ fpc = "returned" /\ exc = "URLError"
  /\ timeoutArg = "default" /\ urlopenCalls = <<10>>
  /\ Len(printed) = 1

\* C3 as stated: when the extractor has returned, no row of exactly 2 cells
\* has an entry and every row of exactly 3 cells has one, wherever it stands.
C3_Original ==
  (Extracting /\ epc = "done") =>
    \A r \in 1..Len(page.rows) :
      /\ Len(page.rows[r].cells) = 2 => RecordsOfRow(r) = {}
      /\ Len(page.rows[r].cells) = 3 => RecordsOfRow(r) /= {}

\* What the loop has reached: on return, every selected row; the lenient
\* variant selects every row but the first; it stops only at a row whose
\* third cell is of digit characters that are not all decimal.
LoopReach ==
  /\ epc = "done" =>
       /\ examined = Len(rowsIter)
       /\ \A r \in 1..Len(page.rows) :
            (mode = "strict" \/ r > 1) => \E k \in 1..examined : rowsIter[k] = r
  /\ mode = "lenient" => RecordsOfRow(1) = {}
  /\ epc = "raised" =>
       /\ mode = "lenient" /\ examined < Len(rowsIter)
       /\ LET cells == RowOfPass(examined + 1).cells
          IN  /\ Len(cells) >= 3
              /\ cells[3].text /= <<>>
              /\ \A k \in 1..Len(cells[3].text) : cells[3].text[k] \in DigitChars
              /\ \E k \in 1..Len(cells[3].text) : cells[3].text[k] = "sup2"

\* C3 (amended): a row of exactly 2 cells never has an entry; a row of
\* exactly 3 cells that the loop has passed has an entry in the strict
\* variant exactly when its first cell holds an anchor, and always in the
\* lenient variant, which never passes the first row selected.
C3_RowSkip ==
  Extracting =>
    /\ \A r \in 1..Len(page.rows) :
         Len(page.rows[r].cells) = 2 => RecordsOfRow(r) = {}
    /\ \A k \in 1..examined :
         Len(RowOfPass(k).cells) = 3 =>
           (RecordsOfPass(k) /= {}
              <=> (mode = "lenient" \/ RowOfPass(k).cells[1].anchor.present))
    /\ LoopReach

\* C3 witness: the lenient variant returned with no entry for a first row of
\* 3 cells and an entry for a later one.
C3_Witness ==
  /\ mode = "lenient" /\ epc = "done"
  /\ Len(page.rows) = 2
  /\ Len(page.rows[1].cells) = 3 /\ Len(page.rows[2].cells) = 3
  /\ RecordsOfRow(1) = {} /\ RecordsOfRow(2) /= {}

FixtureRecords(a160, a150) ==
  << Record(PyStr(Txt160), PyStr(TxtHref160), PyStr(TxtTs160), a160),
     Record(PyStr(Txt150), PyStr(TxtHref150), PyStr(TxtTs150), a150) >>

C7_NeverFails ==
  Extracting =>
    /\ epc /= "raised"
    /\ epc = "done" =>
         /\ eresult.kind \in {"dict", "list"}
         /\ page.rows = <<>> => eresult.versions = <<>>
         /\ (mode = "strict" /\ ~page.project.present) => eresult.project = PyNone
         /\ (mode = "strict" /\ ~page.para.present) => eresult.version_count = PyNone

Unanchored(row) == Len(row.cells) >= 3 /\ ~row.cells[1].anchor.present

\* C9 as stated: when the extractor has returned, a row of at least 3 cells
\* without an anchor has no record in the strict variant, and in the lenient
\* variant a record with null version and url, its timestamp from cell 1 and
\* its artifacts from cell 2.
C9_Original ==
  (Extracting /\ epc = "done") =>
    \A r \in 1..Len(page.rows) :
      Unanchored(page.rows[r]) =>
        /\ mode = "strict" => RecordsOfRow(r) = {}
        /\ mode = "lenient" =>
             \E j \in RecordsOfRow(r) :
               /\ versions[j].version = PyNone
               /\ versions[j].url = PyNone
               /\ versions[j].timestamp = PyStr(page.rows[r].cells[2].text)
               /\ versions[j].artifacts.kind \in {"str", "int"}

\* C9 (amended): a row of at least 3 cells without an anchor never has a
\* record in the strict variant; in the lenient variant each such row the
\* loop has passed has exactly one record, with null version and url, the
\* timestamp cell 1's text and the artifacts cell 2's text or its integer;
\* the lenient loop never passes the first row selected, and it stops with
\* ValueError at a row whose third cell is digit characters not all decimal.
C9_MissingAnchor ==
  Extracting =>
    /\ mode = "strict" =>
         \A r \in 1..Len(page.rows) :
           Unanchored(page.rows[r]) => RecordsOfRow(r) = {}
    /\ mode = "lenient" =>
         \A k \in 1..examined :
           Unanchored(RowOfPass(k)) =>
             /\ Cardinality(RecordsOfPass(k)) = 1
             /\ \A j \in RecordsOfPass(k) :
                  LET cells == RowOfPass(k).cells
                  IN  /\ versions[j].version = PyNone
                      /\ versions[j].url = PyNone
                      /\ versions[j].timestamp = PyStr(cells[2].text)
                      /\ versions[j].artifacts =
                           IF SolelyDecimal(cells[3].text)
                           THEN PyInt(PlaceSum(cells[3].text, 1))
                           ELSE PyStr(cells[3].text)
    /\ LoopReach
    /\ (mode = "lenient" /\ epc = "done") => eresult.versions = versions

\* C9 witness: the lenient variant returned one record, with null version and
\* url, for two rows without an anchor, the first of which it skipped.
C9_Witness ==
  /\ mode = "lenient" /\ epc = "done"
  /\ page.rows = <<Unlinked, Unlinked>>
  /\ Len(eresult.versions) = 1
  /\ eresult.versions[1].version = PyNone
  /\ eresult.versions[1].url = PyNone
  /\ eresult.versions[1].timestamp = PyStr(TxtTs140)
  /\ eresult.versions[1].artifacts = PyInt(10)

====
